---- MODULE Spec2Model ----
(***************************************************************************)
(* Model of autoconf.config.ConfigManager (src/autoconf/config.py): the    *)
(* artifact catalog (app_config_map), the theme matcher                    *)
(* (get_matching_configs, get_matching_scripts) and the link               *)
(* reconciliation (update_app_config, update_apps).                        *)
(*                                                                         *)
(* Representation.  A file name is the sequence of its dot-separated       *)
(* components, so "p-d.b.c" is <<"p-d", "b", "c">>; str.split('.') is then *)
(* the components and '.'.join(parts[1:]) is the tail.  A path below the   *)
(* application directory is <<subdir, name>>.  A Python dict is a sequence *)
(* of <<key, value>> pairs with distinct keys, in insertion order.         *)
(* A directory listing (Path.iterdir) is a sequence without repetition:    *)
(* the order is arbitrary but belongs to the state of the directory.       *)
(***************************************************************************)
EXTENDS Integers, Sequences, FiniteSets, TLC

VARIABLES
    palette,            \* requested palette (argument)
    scheme,             \* requested scheme (argument)
    generated,          \* apps/<app>/generated : [isdir, files]
    user,               \* apps/<app>/user      : [isdir, files]
    call,               \* apps/<app>/call      : [isdir, files]
    broken,             \* artifact paths for which Path.exists() is false
    failing,            \* scripts that exit with a non-zero status
    styleReset,         \* whether colorama's Style exposes the attribute RESET
    app_registry,       \* self.app_registry : dict app name -> settings
    app_settings,       \* argument of update_app_config (None or a dict)
    parentExists,       \* whether the directory named by config_dir exists
    fs,                 \* what is at config_dir/<conf_part>, per conf_part
    pc,                 \* position of the running call
    exc,                \* exception that escaped the running call
    app_config_map,     \* local of get_matching_configs (line 177)
    file_parts,         \* local of get_matching_configs (line 176)
    file_map,           \* local of update_app_config (line 272)
    to_symlink,         \* local of update_app_config (line 271)
    idx,                \* index in to_symlink of the operation being processed
    links_succ,         \* local of update_app_config (line 292)
    links_fail,         \* local of update_app_config (line 293)
    script_list,        \* local of update_app_config (line 325): scripts yet to run
    executed,           \* history: <<idx, script>> of every script run in this call
    runs,               \* number of calls of update_app_config started so far
    fs_start,           \* history: fs when the running call started
    prev,               \* history: outcome of the previous call
    set_theme           \* set_theme.update_theme_settings: its registry, its
                        \* arguments, the files it tests and its locals

vars == <<palette, scheme, generated, user, call, broken, failing, styleReset,
          app_registry, app_settings, parentExists, fs, pc, exc, app_config_map,
          file_parts, file_map, to_symlink, idx, links_succ, links_fail,
          script_list, executed, runs, fs_start, prev, set_theme>>

\* what no step of ConfigManager changes: its inputs, and the state of set_theme
inputs == <<palette, scheme, generated, user, call, broken, failing, styleReset,
            app_registry, app_settings, parentExists, set_theme>>

\* the state of ConfigManager, which no step of set_theme changes
manager == <<palette, scheme, generated, user, call, broken, failing, styleReset,
             app_registry, app_settings, parentExists, fs, pc, exc,
             app_config_map, file_parts, file_map, to_symlink, idx, links_succ,
             links_fail, script_list, executed, runs, fs_start, prev>>

(***************************************************************************)
(* Bounds of the model.                                                    *)
(***************************************************************************)
MaxGen == 2         \* files in generated/ (matcher specification)
MaxUser == 2        \* files in user/ (matcher specification)
MaxGenLink == 2     \* files in generated/ (link specification)
MaxUserLink == 1    \* files in user/ (link specification)
MaxScripts == 2     \* files in call/
MaxRuns == 2        \* consecutive calls of update_app_config
MaxThemeApps == 2   \* applications in the registry of set_theme

(***************************************************************************)
(* Generic helpers.                                                        *)
(***************************************************************************)
Range(s) == {s[i] : i \in 1..Len(s)}

\* sequences without repetition over S, of length at most n
Listings(S, n) ==
    {s \in UNION {[1..k -> S] : k \in 0..n} :
        \A i, j \in 1..Len(s) : i # j => s[i] # s[j]}

(***************************************************************************)
(* dict                                                                    *)
(***************************************************************************)
Keys(d) == {d[i][1] : i \in 1..Len(d)}

Get(d, k) == d[CHOOSE i \in 1..Len(d) : d[i][1] = k][2]

\* d[k] = v : an existing key keeps its position, a new key goes last
DictSet(d, k, v) ==
    IF k \in Keys(d)
    THEN [i \in 1..Len(d) |-> IF d[i][1] = k THEN <<k, v>> ELSE d[i]]
    ELSE Append(d, <<k, v>>)

(***************************************************************************)
(* resolve_scheme, resolve_palette                                         *)
(***************************************************************************)
resolve_scheme(s) == IF s = "auto" THEN "any" ELSE s

resolve_palette(p) == IF p = "auto" THEN "any" ELSE p

(***************************************************************************)
(* app_config_map                                                          *)
(***************************************************************************)
RECURSIVE ScanDir(_, _, _, _)
\* for conf_file in subdir_path.iterdir(): file_map[conf_file.name] = conf_file
ScanDir(fm, subdir, files, i) ==
    IF i > Len(files) THEN fm
    ELSE ScanDir(DictSet(fm, files[i], <<subdir, files[i]>>), subdir, files, i + 1)

\* one pass of "for subdir in ['generated', 'user']"
ScanSubdir(fm, subdir, dir) ==
    IF ~dir.isdir THEN fm ELSE ScanDir(fm, subdir, dir.files, 1)

\* mutant: the tiers scanned in the other order, so that generated overwrites user
AppConfigMapOf_UserFirst(gen, usr) ==
    ScanSubdir(ScanSubdir(<<>>, "user", usr), "generated", gen)

AppConfigMapOf(gen, usr) ==
    ScanSubdir(ScanSubdir(<<>>, "generated", gen), "user", usr)

(***************************************************************************)
(* get_matching_configs                                                    *)
(***************************************************************************)
\* parts = pathname.split('.') ; len(parts) < 2
Malformed(pathname) == Len(pathname) < 2

theme_part(pathname) == pathname[1]

conf_part(pathname) == Tail(pathname)

RECURSIVE ParseFrom(_, _, _)
\* lines 178-186; the diagnostic of line 182 names the unbound "filename",
\* so reaching it raises NameError
ParseFrom(acm, i, acc) ==
    IF i > Len(acm) THEN [exc |-> "none", parts |-> acc]
    ELSE IF Malformed(acm[i][1]) THEN [exc |-> "NameError", parts |-> acc]
    ELSE ParseFrom(acm, i + 1,
             Append(acc, <<theme_part(acm[i][1]), conf_part(acm[i][1]), acm[i][1]>>))

FileParts(acm) == ParseFrom(acm, 1, <<>>)

\* mutant: any-<scheme> placed above <palette>-any on the ladder
theme_prefixes_SchemeFirst(sch, pal) ==
    << "any-any", pal \o "-any", "any-" \o sch, pal \o "-" \o sch >>

\* lines 188-193 (also 227-232)
theme_prefixes(sch, pal) ==
    << "any-any", "any-" \o sch, pal \o "-any", pal \o "-" \o sch >>

RECURSIVE MatchPrefix(_, _, _, _, _)
\* inner loop of lines 197-199 for one theme_prefix
MatchPrefix(mfm, prefix, parts, acm, i) ==
    IF i > Len(parts) THEN mfm
    ELSE MatchPrefix(
            IF parts[i][1] = prefix
            THEN DictSet(mfm, parts[i][2], Get(acm, parts[i][3]))
            ELSE mfm,
            prefix, parts, acm, i + 1)

RECURSIVE MatchLadder(_, _, _, _, _)
\* outer loop of lines 196-199
MatchLadder(mfm, prefixes, parts, acm, j) ==
    IF j > Len(prefixes) THEN mfm
    ELSE MatchLadder(MatchPrefix(mfm, prefixes[j], parts, acm, 1),
                     prefixes, parts, acm, j + 1)

MatchingFileMap(parts, acm, sch, pal) ==
    MatchLadder(<<>>, theme_prefixes(resolve_scheme(sch), resolve_palette(pal)),
                parts, acm, 1)

(***************************************************************************)
(* get_matching_scripts                                                    *)
(***************************************************************************)
\* script_path.stem of <<stem, suffix>>
stem(script) == script[1]

RECURSIVE ScriptsWithPrefix(_, _, _, _)
\* inner loop of lines 237-240 for one theme_prefix
ScriptsWithPrefix(acc, prefix, files, i) ==
    IF i > Len(files) THEN acc
    ELSE ScriptsWithPrefix(
            IF stem(files[i]) = prefix THEN Append(acc, files[i]) ELSE acc,
            prefix, files, i + 1)

RECURSIVE ScriptLadder(_, _, _, _)
\* outer loop of lines 236-240: script_list, a script once per prefix it equals
ScriptLadder(acc, prefixes, files, j) ==
    IF j > Len(prefixes) THEN acc
    ELSE ScriptLadder(ScriptsWithPrefix(acc, prefixes[j], files, 1),
                      prefixes, files, j + 1)

\* mutant: the list returned as built, without the set
ListOfSet_Kept(l) == {l}

\* list(set(l)): the elements of l, each once, in any order
ListOfSet(l) == {s \in Listings(Range(l), Len(l)) : Range(s) = Range(l)}

\* lines 221-242: None when call/ is no directory, else the lists line 242 can
\* return.  scheme and palette are used as given (no resolve_scheme,
\* resolve_palette here).
MatchingScripts(calldir, sch, pal) ==
    IF ~calldir.isdir
    THEN [none |-> TRUE, lists |-> {}]
    ELSE [none |-> FALSE,
          lists |-> ListOfSet(ScriptLadder(<<>>, theme_prefixes(sch, pal),
                                           calldir.files, 1))]

(***************************************************************************)
(* Application settings: a dict with the optional keys config_dir and      *)
(* config_map, or None.                                                    *)
(***************************************************************************)
NoneSettings == [none |-> TRUE, keys |-> {}, config_dir |-> "", config_map |-> <<>>]

Settings(keys, dir, map) ==
    [none |-> FALSE, keys |-> keys, config_dir |-> dir, config_map |-> map]

EmptySettings == Settings({}, "", <<>>)

\* lines 264-265: app_settings = self.app_registry.get(app_name, {})
EffectiveSettings(arg, registry, app_name) ==
    IF ~arg.none THEN arg
    ELSE IF app_name \in Keys(registry) THEN Get(registry, app_name)
    ELSE EmptySettings

\* line 267
Misconfigured(s) == "config_dir" \in s.keys /\ "config_map" \in s.keys

AppName == "app"

(***************************************************************************)
(* Link planning, lines 271-290                                            *)
(***************************************************************************)
\* util.absolute_path (autoconf/util.py)
absolute_path(p) == p

RECURSIVE PlanDir(_, _, _, _)
\* lines 278-282
PlanDir(fm, dir, i, acc) ==
    IF i > Len(fm) THEN acc
    ELSE PlanDir(fm, dir, i + 1,
                 Append(acc, <<absolute_path(<<dir, fm[i][1]>>), fm[i][2]>>))

RECURSIVE PlanMap(_, _, _)
\* lines 284-290: the call of line 288 names the unbound "abs_pat", so the
\* first config_tail found in config_map raises NameError
PlanMap(fm, map, i) ==
    IF i > Len(fm) THEN [exc |-> "none", plan |-> <<>>]
    ELSE IF fm[i][1] \in Keys(map) THEN [exc |-> "NameError", plan |-> <<>>]
    ELSE PlanMap(fm, map, i + 1)

PlanLinksOf(fm, s) ==
    IF "config_dir" \in s.keys
    THEN [exc |-> "none", plan |-> PlanDir(fm, s.config_dir, 1, <<>>)]
    ELSE IF "config_map" \in s.keys
    THEN PlanMap(fm, s.config_map, 1)
    ELSE [exc |-> "none", plan |-> <<>>]

(***************************************************************************)
(* The file system at the link locations.                                  *)
(***************************************************************************)
NoData == <<"none", <<>>>>

Absent == [kind |-> "absent", data |-> NoData]

RegularFile == [kind |-> "file", data |-> <<"bytes", <<"user">>>>]

LinkTo(path) == [kind |-> "link", data |-> path]

Elsewhere == <<"elsewhere", <<"x">>>>

\* to_path.exists()
ArtifactExists(to_path, brk) == to_path \notin brk

\* mutant: the test without is_symlink(): whatever exists is refused
ForeignFile_AnyEntry(entry) == entry.kind # "absent"

\* mutant: the test without its "not": only a symlink is refused
ForeignFile_Inverted(entry) == entry.kind = "link"

\* from_path.exists() and not from_path.is_symlink()
ForeignFile(entry) == entry.kind = "file"

\* what line 294-321 decide for one operation: "artifact", "parent", "foreign"
\* (the three failures, in the order they are tested) or "link"
Precondition(op, brk, parent, files) ==
    IF ~ArtifactExists(op[2], brk) THEN "artifact"
    ELSE IF ~parent THEN "parent"
    ELSE IF ForeignFile(files[op[1][2]]) THEN "foreign"
    ELSE "link"

\* lines 317, 320: unlink(missing_ok=True) then symlink_to(to_path)
Relink(files, op) == [files EXCEPT ![op[1][2]] = LinkTo(op[2])]

(***************************************************************************)
(* Input universes.                                                        *)
(***************************************************************************)
ConfA == <<"a">>

ConfBC == <<"b", "c">>

ConfParts == {ConfA, ConfBC}

Name(theme, conf) == <<theme>> \o conf

\* file names of the matcher specification; <<"p-d">> has no dot
MatchNames ==
    {Name(t, ConfA) : t \in {"any-any", "any-d", "p-any", "p-d", "q-d"}}
        \cup {Name("any-any", ConfBC), Name("p-d", ConfBC), <<"p-d">>}

MatchRequests == {"auto", "p"} \X {"auto", "d"}

\* file names of the link specification
LinkNames == {Name("any-any", ConfA), Name("p-d", ConfA), Name("any-any", ConfBC)}

LinkUserNames == {Name("p-d", ConfA)}

LinkRequests == {<<"p", "d">>, <<"any", "any">>}

ScriptNames == {<<"any-any", "sh">>, <<"p-d", "sh">>}

Dirs(names, n) == {[isdir |-> TRUE, files |-> l] : l \in Listings(names, n)}

NoDir == [isdir |-> FALSE, files |-> <<>>]

PathsOf(gen, usr) ==
    {<<"generated", n>> : n \in Range(gen.files)}
        \cup {<<"user", n>> : n \in Range(usr.files)}

DirSettings == Settings({"config_dir"}, "config_dir", <<>>)

MapSettings == Settings({"config_map"}, "", << <<ConfA, <<"target", ConfA>>>> >>)

BothSettings ==
    Settings({"config_dir", "config_map"}, "config_dir",
             << <<ConfA, <<"target", ConfA>>>> >>)

\* settings handed to update_app_config by a caller that disabled the registry
ExplicitSettings == {EmptySettings, DirSettings, MapSettings, BothSettings}

\* registries loaded by _check_registry
Registries ==
    { <<>>,
      << <<AppName, DirSettings>> >>,
      << <<AppName, BothSettings>>, <<"other", DirSettings>> >> }

(***************************************************************************)
(* set_theme.update_theme_settings (src/autoconf/set_theme.py): inputs.    *)
(* An application's settings are reduced to what the function reads:       *)
(* whether os.uname().sysname is in supported_oses, external_theme, and    *)
(* refresh_cmd: "absent" (no such key), or a command that exits with       *)
(* status zero ("ok") or not ("fails").                                    *)
(***************************************************************************)
ThemeAppNames == {"kitty", "sway"}

ThemeSettings ==
    [supported : BOOLEAN, external_theme : BOOLEAN,
     refresh_cmd : {"absent", "ok", "fails"}]

\* app_registry.get('app', {}) of line 63: a dict app name -> settings
ThemeRegistries ==
    {r \in UNION {[1..k -> ThemeAppNames \X ThemeSettings] : k \in 0..MaxThemeApps} :
        \A i, j \in 1..Len(r) : i # j => r[i][1] # r[j][1]}

\* lines 86-103: from_conf_path and to_conf_path of an application
from_conf_path(app_name, settings) ==
    IF settings.external_theme
    THEN <<"config_dir", <<app_name, "current-theme", "conf">>>>
    ELSE <<"config_dir", <<app_name, "config_file">>>>

to_conf_path(app_name, settings) ==
    IF settings.external_theme
    THEN <<"themes", <<app_name, "generated", "conf">>>>
    ELSE <<"config_dir", <<app_name, "variant">>>>

\* the state of set_theme before update_theme_settings is called
ThemeState(registry, arg, exists, files) ==
    [app_registry |-> registry,     \* line 62-63
     app |-> arg,                   \* args.app
     exists |-> exists,             \* to_conf_path.exists(), per application
     files |-> files,               \* what is at from_conf_path, per application
     pc |-> "idle",
     exc |-> "none",
     app_list |-> <<>>,             \* line 69
     i |-> 1,                       \* position in app_list (line 77)
     links_succ |-> <<>>,           \* line 75
     links_fail |-> <<>>,           \* line 76
     log |-> <<>>]                  \* history: <<"refresh" or "link", app_name>>

NoTheme ==
    ThemeState(<<>>, "*", [a \in ThemeAppNames |-> FALSE],
               [a \in ThemeAppNames |-> Absent])

(***************************************************************************)
(* Initial states.                                                         *)
(***************************************************************************)
InitLocals ==
    /\ pc = "idle"
    /\ exc = "none"
    /\ app_config_map = <<>>
    /\ file_parts = <<>>
    /\ file_map = <<>>
    /\ to_symlink = <<>>
    /\ idx = 1
    /\ links_succ = <<>>
    /\ links_fail = <<>>
    /\ script_list = <<>>
    /\ executed = <<>>
    /\ runs = 0
    /\ fs_start = fs
    /\ prev = [valid |-> FALSE, fs |-> fs, fail |-> <<>>, exc |-> "none"]

\* settings and registry under which update_app_config plans by config_dir
DirForm(registry, arg) ==
    "config_dir" \in EffectiveSettings(arg, registry, AppName).keys
        /\ ~Misconfigured(EffectiveSettings(arg, registry, AppName))

\* the registry was disabled and the caller supplies the settings, or the
\* registry was loaded and the settings are looked up in it
SettingsChoices ==
    {<<(<<>>), s>> : s \in ExplicitSettings}
        \cup {<<r, NoneSettings>> : r \in Registries}

\* the link specification: a ConfigManager with its application directory, the
\* directory config_dir names and the arguments of the calls to come.  Only a
\* call that plans by config_dir reads call/, the link locations and the
\* artifacts, so these vary with that form of settings only.
Init ==
    /\ \E r \in LinkRequests : palette = r[1] /\ scheme = r[2]
    /\ generated \in Dirs(LinkNames, MaxGenLink)
    /\ user \in Dirs(LinkUserNames, MaxUserLink)
    /\ \E c \in SettingsChoices : app_registry = c[1] /\ app_settings = c[2]
    /\ \/ /\ DirForm(app_registry, app_settings)
          /\ broken \in {b \in SUBSET PathsOf(generated, user) : Cardinality(b) <= 1}
          /\ call \in Dirs(ScriptNames, MaxScripts) \cup {NoDir}
          /\ failing \in {f \in SUBSET Range(call.files) : Cardinality(f) <= 1}
          /\ styleReset \in BOOLEAN
          /\ parentExists \in BOOLEAN
          /\ fs \in [ConfParts -> IF parentExists
                                  THEN {Absent, RegularFile, LinkTo(Elsewhere)}
                                  ELSE {Absent}]
       \/ /\ ~DirForm(app_registry, app_settings)
          /\ broken = {}
          /\ call = NoDir
          /\ failing = {}
          /\ styleReset = TRUE
          /\ parentExists = TRUE
          /\ fs \in [ConfParts -> {Absent, RegularFile}]
    /\ set_theme = NoTheme
    /\ InitLocals

(***************************************************************************)
(* update_app_config, one step at a time.                                  *)
(***************************************************************************)
Raise(e) == pc' = "raised" /\ exc' = e

\* a caller calls update_app_config(app_name, app_settings, scheme, palette)
Invoke ==
    /\ pc \in {"idle", "returned", "raised"}
    /\ runs < MaxRuns
    /\ runs' = runs + 1
    /\ prev' = [valid |-> runs > 0, fs |-> fs, fail |-> links_fail, exc |-> exc]
    /\ fs_start' = fs
    /\ pc' = "check"
    /\ exc' = "none"
    /\ app_config_map' = <<>>
    /\ file_parts' = <<>>
    /\ file_map' = <<>>
    /\ to_symlink' = <<>>
    /\ idx' = 1
    /\ links_succ' = <<>>
    /\ links_fail' = <<>>
    /\ script_list' = <<>>
    /\ executed' = <<>>
    /\ UNCHANGED <<inputs, fs>>

\* lines 264-269
CheckSettings ==
    /\ pc = "check"
    /\ pc' = IF Misconfigured(EffectiveSettings(app_settings, app_registry, AppName))
             THEN "returned" ELSE "catalog"
    /\ UNCHANGED <<inputs, fs, exc, app_config_map, file_parts, file_map, to_symlink,
                   idx, links_succ, links_fail, script_list, executed, runs,
                   fs_start, prev>>

\* line 177: app_config_map = self.app_config_map(app_name)
AppConfigMap ==
    /\ pc = "catalog"
    /\ app_config_map' = AppConfigMapOf(generated, user)
    /\ pc' = "parse"
    /\ UNCHANGED <<inputs, fs, exc, file_parts, file_map, to_symlink, idx,
                   links_succ, links_fail, script_list, executed, runs, fs_start,
                   prev>>

\* lines 176-186
ParseNames ==
    /\ pc = "parse"
    /\ LET r == FileParts(app_config_map) IN
         /\ file_parts' = r.parts
         /\ IF r.exc = "none" THEN pc' = "match" /\ exc' = exc ELSE Raise(r.exc)
    /\ UNCHANGED <<inputs, fs, app_config_map, file_map, to_symlink, idx,
                   links_succ, links_fail, script_list, executed, runs, fs_start,
                   prev>>

\* lines 188-201, and the assignment of line 272
MatchThemes ==
    /\ pc = "match"
    /\ file_map' = MatchingFileMap(file_parts, app_config_map, scheme, palette)
    /\ pc' = "plan"
    /\ UNCHANGED <<inputs, fs, exc, app_config_map, file_parts, to_symlink, idx,
                   links_succ, links_fail, script_list, executed, runs, fs_start,
                   prev>>

\* lines 271-290
PlanLinks ==
    /\ pc = "plan"
    /\ LET r == PlanLinksOf(file_map,
                            EffectiveSettings(app_settings, app_registry, AppName)) IN
         /\ to_symlink' = r.plan
         /\ IF r.exc = "none" THEN pc' = "loop" /\ exc' = exc ELSE Raise(r.exc)
    /\ UNCHANGED <<inputs, fs, app_config_map, file_parts, file_map, idx,
                   links_succ, links_fail, script_list, executed, runs, fs_start,
                   prev>>

\* mutant: the unlink of line 317 done before the three tests
FailOp_UnlinkFirst ==
    /\ pc = "loop"
    /\ idx <= Len(to_symlink)
    /\ Precondition(to_symlink[idx], broken, parentExists, fs) # "link"
    /\ fs' = [fs EXCEPT ![to_symlink[idx][1][2]] =
                 IF @.kind = "link" THEN Absent ELSE @]
    /\ links_fail' = Append(links_fail, to_symlink[idx])
    /\ idx' = idx + 1
    /\ UNCHANGED <<inputs, pc, exc, app_config_map, file_parts, file_map,
                   to_symlink, links_succ, script_list, executed, runs, fs_start,
                   prev>>

\* lines 294-313: an operation whose precondition fails
FailOp ==
    /\ pc = "loop"
    /\ idx <= Len(to_symlink)
    /\ Precondition(to_symlink[idx], broken, parentExists, fs) # "link"
    /\ links_fail' = Append(links_fail, to_symlink[idx])
    /\ idx' = idx + 1
    /\ UNCHANGED <<inputs, fs, pc, exc, app_config_map, file_parts, file_map,
                   to_symlink, links_succ, script_list, executed, runs, fs_start,
                   prev>>

\* lines 314-330: the link is made, then the scripts to run are looked up;
\* get_matching_scripts returns None without a call/ directory, and iterating
\* None raises TypeError
LinkOp ==
    /\ pc = "loop"
    /\ idx <= Len(to_symlink)
    /\ Precondition(to_symlink[idx], broken, parentExists, fs) = "link"
    /\ fs' = Relink(fs, to_symlink[idx])
    /\ links_succ' = Append(links_succ, to_symlink[idx])
    /\ LET r == MatchingScripts(call, scheme, palette) IN
         IF r.none
         THEN Raise("TypeError") /\ UNCHANGED <<script_list, idx>>
         ELSE \E l \in r.lists :
                /\ script_list' = l
                /\ exc' = exc
                /\ IF l = <<>>
                   THEN pc' = "loop" /\ idx' = idx + 1
                   ELSE pc' = "scripts" /\ idx' = idx
    /\ UNCHANGED <<inputs, app_config_map, file_parts, file_map, to_symlink,
                   links_fail, executed, runs, fs_start, prev>>

\* lines 330-335, one script: check_output raises CalledProcessError on a
\* non-zero exit status; the report of lines 333-335 reads Style.RESET, an
\* attribute of the colorama package, which is not part of this repository:
\* both outcomes of the lookup are kept (styleReset).  The f-string of line
\* 331 lacks the closing parenthesis of relative_to(...); it is read as the
\* diagnostic it is written to print, which changes no state.
RunScript ==
    /\ pc = "scripts"
    /\ executed' = Append(executed, <<idx, Head(script_list)>>)
    /\ IF Head(script_list) \in failing
       THEN Raise("CalledProcessError") /\ UNCHANGED <<script_list, idx>>
       ELSE IF ~styleReset
       THEN Raise("AttributeError") /\ UNCHANGED <<script_list, idx>>
       ELSE /\ script_list' = Tail(script_list)
            /\ exc' = exc
            /\ IF Tail(script_list) = <<>>
               THEN pc' = "loop" /\ idx' = idx + 1
               ELSE pc' = "scripts" /\ idx' = idx
    /\ UNCHANGED <<inputs, fs, app_config_map, file_parts, file_map, to_symlink,
                   links_succ, links_fail, runs, fs_start, prev>>

\* lines 337-345: the report, after the last operation
Report ==
    /\ pc = "loop"
    /\ idx > Len(to_symlink)
    /\ pc' = "returned"
    /\ UNCHANGED <<inputs, fs, exc, app_config_map, file_parts, file_map,
                   to_symlink, idx, links_succ, links_fail, script_list, executed,
                   runs, fs_start, prev>>

(***************************************************************************)
(* update_apps, lines 347-370                                              *)
(***************************************************************************)
\* apps = '*' takes the registry's keys; any other value reads app_list before
\* it is assigned (line 358).  With a non-empty list, the first iteration
\* evaluates the unbound "app_registry" (line 367) before update_app_config is
\* called.
UpdateAppsOutcome(apps, registry) ==
    IF apps # "*" THEN "UnboundLocalError"
    ELSE IF Len(registry) = 0 THEN "none"
    ELSE "NameError"

UpdateApps ==
    /\ pc = "idle"
    /\ runs = 0
    /\ \E apps \in {"*", "app"} :
         /\ exc' = UpdateAppsOutcome(apps, app_registry)
         /\ pc' = IF exc' = "none" THEN "apps_returned" ELSE "apps_raised"
    /\ UNCHANGED <<inputs, fs, app_config_map, file_parts, file_map, to_symlink,
                   idx, links_succ, links_fail, script_list, executed, runs,
                   fs_start, prev>>

Next ==
    \/ Invoke
    \/ CheckSettings
    \/ AppConfigMap
    \/ ParseNames
    \/ MatchThemes
    \/ PlanLinks
    \/ FailOp
    \/ LinkOp
    \/ RunScript
    \/ Report
    \/ UpdateApps

Spec == Init /\ [][Next]_vars

(***************************************************************************)
(* The matcher specification: get_matching_configs called on its own, over *)
(* a wider choice of catalogs and requests.                                *)
(***************************************************************************)
InitMatch ==
    /\ \E r \in MatchRequests : palette = r[1] /\ scheme = r[2]
    /\ generated \in Dirs(MatchNames, MaxGen) \cup {NoDir}
    /\ user \in Dirs(MatchNames, MaxUser) \cup {NoDir}
    /\ broken = {}
    /\ call = NoDir
    /\ failing = {}
    /\ styleReset = TRUE
    /\ app_registry = <<>>
    /\ app_settings = EmptySettings
    /\ parentExists = FALSE
    /\ fs = [c \in ConfParts |-> Absent]
    /\ set_theme = NoTheme
    /\ InitLocals

\* a caller calls get_matching_configs(app_name, scheme, palette)
InvokeMatch ==
    /\ pc = "idle"
    /\ pc' = "catalog"
    /\ UNCHANGED <<inputs, fs, exc, app_config_map, file_parts, file_map,
                   to_symlink, idx, links_succ, links_fail, script_list, executed,
                   runs, fs_start, prev>>

NextMatch ==
    \/ InvokeMatch
    \/ AppConfigMap
    \/ ParseNames
    \/ MatchThemes

SpecMatch == InitMatch /\ [][NextMatch]_vars

(***************************************************************************)
(* set_theme.update_theme_settings, one step at a time.                    *)
(***************************************************************************)
InitTheme ==
    /\ palette = "p"
    /\ scheme = "d"
    /\ generated = NoDir
    /\ user = NoDir
    /\ broken = {}
    /\ call = NoDir
    /\ failing = {}
    /\ styleReset = TRUE
    /\ app_registry = <<>>
    /\ app_settings = EmptySettings
    /\ parentExists = FALSE
    /\ fs = [c \in ConfParts |-> Absent]
    /\ InitLocals
    /\ \E r \in ThemeRegistries, arg \in {"*", "ghost"} \cup ThemeAppNames,
          ex \in [ThemeAppNames -> BOOLEAN],
          f \in [ThemeAppNames -> {Absent, RegularFile, LinkTo(Elsewhere)}] :
          set_theme = ThemeState(r, arg, ex, f)

\* the application of the running iteration and its settings
ThemeApp == set_theme.app_list[set_theme.i][1]

ThemeAppSettings == set_theme.app_list[set_theme.i][2]

\* lines 65-73
ThemeStart ==
    /\ set_theme.pc = "idle"
    /\ set_theme' =
         IF set_theme.app \notin Keys(set_theme.app_registry) /\ set_theme.app # "*"
         THEN [set_theme EXCEPT !.pc = "returned"]
         ELSE [set_theme EXCEPT
                 !.pc = "loop",
                 !.app_list =
                     IF set_theme.app = "*" THEN set_theme.app_registry
                     ELSE << <<set_theme.app, Get(set_theme.app_registry, set_theme.app)>> >>]
    /\ UNCHANGED manager

\* lines 82-84
ThemeSkipOs ==
    /\ set_theme.pc = "loop"
    /\ set_theme.i <= Len(set_theme.app_list)
    /\ ~ThemeAppSettings.supported
    /\ set_theme' = [set_theme EXCEPT !.i = @ + 1]
    /\ UNCHANGED manager

\* the tests of lines 105 and 114
ThemeLinkable(app_name, settings) ==
    /\ set_theme.exists[app_name]
    /\ ~ForeignFile(set_theme.files[app_name])

\* lines 105-120
ThemeFail ==
    /\ set_theme.pc = "loop"
    /\ set_theme.i <= Len(set_theme.app_list)
    /\ ThemeAppSettings.supported
    /\ ~ThemeLinkable(ThemeApp, ThemeAppSettings)
    /\ set_theme' = [set_theme EXCEPT
                   !.links_fail = DictSet(@, ThemeApp,
                       <<from_conf_path(ThemeApp, ThemeAppSettings),
                         to_conf_path(ThemeApp, ThemeAppSettings)>>),
                   !.i = @ + 1]
    /\ UNCHANGED manager

\* lines 121-126: from_conf_path.unlink(missing_ok=True)
ThemeUnlink ==
    /\ set_theme.pc = "loop"
    /\ set_theme.i <= Len(set_theme.app_list)
    /\ ThemeAppSettings.supported
    /\ ThemeLinkable(ThemeApp, ThemeAppSettings)
    /\ set_theme' = [set_theme EXCEPT !.files[ThemeApp] = Absent, !.pc = "refresh"]
    /\ UNCHANGED manager

\* lines 130-131: subprocess.check_call(refresh_cmd) when the key is there;
\* check_call raises CalledProcessError on a non-zero exit status
ThemeRefresh ==
    /\ set_theme.pc = "refresh"
    /\ set_theme' =
         IF ThemeAppSettings.refresh_cmd = "absent"
         THEN [set_theme EXCEPT !.pc = "link"]
         ELSE [set_theme EXCEPT
                 !.log = Append(@, <<"refresh", ThemeApp>>),
                 !.pc = IF ThemeAppSettings.refresh_cmd = "fails"
                        THEN "raised" ELSE "link",
                 !.exc = IF ThemeAppSettings.refresh_cmd = "fails"
                         THEN "CalledProcessError" ELSE "none"]
    /\ UNCHANGED manager

\* lines 133-134: from_conf_path.symlink_to(to_conf_path)
ThemeLink ==
    /\ set_theme.pc = "link"
    /\ set_theme' = [set_theme EXCEPT
                   !.files[ThemeApp] = LinkTo(to_conf_path(ThemeApp, ThemeAppSettings)),
                   !.log = Append(@, <<"link", ThemeApp>>),
                   !.links_succ = DictSet(@, ThemeApp,
                       <<from_conf_path(ThemeApp, ThemeAppSettings),
                         to_conf_path(ThemeApp, ThemeAppSettings)>>),
                   !.i = @ + 1,
                   !.pc = "loop"]
    /\ UNCHANGED manager

\* lines 136-140
ThemeReport ==
    /\ set_theme.pc = "loop"
    /\ set_theme.i > Len(set_theme.app_list)
    /\ set_theme' = [set_theme EXCEPT !.pc = "returned"]
    /\ UNCHANGED manager

NextTheme ==
    \/ ThemeStart
    \/ ThemeSkipOs
    \/ ThemeFail
    \/ ThemeUnlink
    \/ ThemeRefresh
    \/ ThemeLink
    \/ ThemeReport

SpecTheme == InitTheme /\ [][NextTheme]_vars

(***************************************************************************)
(* Properties of update_theme_settings (SpecTheme).                        *)
(***************************************************************************)
\* C11: whenever the refresh command of an application has run, the new link
\* of that application was made before it.
C11_RefreshAfterLink ==
    \A k \in 1..Len(set_theme.log) :
        set_theme.log[k][1] = "refresh"
        => \E j \in 1..(k - 1) : set_theme.log[j] = <<"link", set_theme.log[k][2]>>

(***************************************************************************)
(* Properties of the catalog and of the matcher (SpecMatch).               *)
(***************************************************************************)
\* get_matching_configs has returned
Resolved == pc = "plan"

\* the catalog has been built
Catalogued == pc \in {"parse", "match", "plan", "raised"}

FilesOf(dir) == IF dir.isdir THEN Range(dir.files) ELSE {}

WellFormed(names) == {n \in names : ~Malformed(n)}

\* logical names of the candidates in the catalog
LogicalNames == {conf_part(n) : n \in WellFormed(Keys(app_config_map))}

HasCandidate(theme, conf) == Name(theme, conf) \in Keys(app_config_map)

CandidatePath(theme, conf) == Get(app_config_map, Name(theme, conf))

Maps(d, k, v) == k \in Keys(d) /\ Get(d, k) = v

\* what the specificity ladder selects for one logical name, read from the
\* most specific prefix down
SelectedBy(pal, sch, conf) ==
    IF HasCandidate(pal \o "-" \o sch, conf)
    THEN Maps(file_map, conf, CandidatePath(pal \o "-" \o sch, conf))
    ELSE IF HasCandidate(pal \o "-any", conf)
    THEN Maps(file_map, conf, CandidatePath(pal \o "-any", conf))
    ELSE IF HasCandidate("any-" \o sch, conf)
    THEN Maps(file_map, conf, CandidatePath("any-" \o sch, conf))
    ELSE IF HasCandidate("any-any", conf)
    THEN Maps(file_map, conf, CandidatePath("any-any", conf))
    ELSE conf \notin Keys(file_map)

\* C1: the resolved map gives every logical name the candidate of the most
\* specific theme prefix present on the ladder any-any < any-<scheme> <
\* <palette>-any < <palette>-<scheme>, and has no entry for a logical name
\* without a candidate on the ladder.
C1_MostSpecific ==
    Resolved =>
        /\ \A conf \in LogicalNames \cup Keys(file_map) :
              SelectedBy(resolve_palette(palette), resolve_scheme(scheme), conf)
        /\ Len(file_map) = Cardinality(Keys(file_map))

\* C1 witness: one logical name has only the any-<scheme> and <palette>-any
\* candidates and gets <palette>-any, another has the exact and the generic
\* candidate and gets the exact one.
C1_Witness ==
    /\ Resolved
    /\ palette = "p" /\ scheme = "d"
    /\ {n \in Keys(app_config_map) : conf_part(n) = ConfA}
          = {Name("any-d", ConfA), Name("p-any", ConfA)}
    /\ Maps(file_map, ConfA, CandidatePath("p-any", ConfA))
    /\ HasCandidate("any-any", ConfBC)
    /\ HasCandidate("p-d", ConfBC)
    /\ Maps(file_map, ConfBC, CandidatePath("p-d", ConfBC))

\* C2 as stated: for a logical name with an artifact in the user tier, the
\* catalog holds user-tier paths only.
C2_PerLogicalName ==
    Catalogued =>
        \A conf \in LogicalNames :
            LET entries == {i \in 1..Len(app_config_map) :
                              /\ ~Malformed(app_config_map[i][1])
                              /\ conf_part(app_config_map[i][1]) = conf}
            IN (\E n \in WellFormed(FilesOf(user)) : conf_part(n) = conf)
                  => \A i \in entries : app_config_map[i][2][1] = "user"

\* C2 amended: per file name, the catalog has exactly one entry for every file
\* name present in a tier, the user-tier path when the user tier has a file of
\* that name and the generated-tier path otherwise.
C2_PerFileName ==
    Catalogued =>
        /\ Keys(app_config_map) = FilesOf(generated) \cup FilesOf(user)
        /\ Len(app_config_map) = Cardinality(Keys(app_config_map))
        /\ \A n \in Keys(app_config_map) :
              Get(app_config_map, n) =
                  IF n \in FilesOf(user) THEN <<"user", n>> ELSE <<"generated", n>>

\* C2 witness: a file name present in both tiers, and one present in generated only
C2_Witness ==
    /\ Catalogued
    /\ \E n \in FilesOf(generated) \cap FilesOf(user) :
          Maps(app_config_map, n, <<"user", n>>)
    /\ \E n \in FilesOf(generated) \ FilesOf(user) :
          Maps(app_config_map, n, <<"generated", n>>)

RECURSIVE WithoutMalformed(_)
WithoutMalformed(acm) ==
    IF acm = <<>> THEN <<>>
    ELSE IF Malformed(Head(acm)[1]) THEN WithoutMalformed(Tail(acm))
    ELSE <<Head(acm)>> \o WithoutMalformed(Tail(acm))

\* C9: with a malformed file name in the catalog, resolution goes on and gives
\* what it gives for the catalog without the malformed names.
C9_MalformedSkipped ==
    (pc \in {"match", "plan", "raised"}
        /\ \E n \in Keys(app_config_map) : Malformed(n))
    => /\ exc = "none"
       /\ Resolved =>
            file_map = MatchingFileMap(FileParts(WithoutMalformed(app_config_map)).parts,
                                       WithoutMalformed(app_config_map), scheme, palette)

(***************************************************************************)
(* Properties of update_app_config and update_apps (Spec).                 *)
(***************************************************************************)
\* the running call of update_app_config has ended
Ended == pc \in {"returned", "raised"}

\* operations the loop of line 294 has finished with
Processed(i) == i < idx

Tailof(op) == op[1][2]

\* C3: a regular file at from_path is never removed, replaced or changed, its
\* operation is never recorded as succeeded, and once the loop has processed
\* the operation it is recorded as failed.
C3_ForeignFileKept ==
    /\ \A c \in ConfParts : fs_start[c].kind = "file" => fs[c] = fs_start[c]
    /\ \A i \in 1..Len(to_symlink) :
          fs_start[Tailof(to_symlink[i])].kind = "file"
          => /\ to_symlink[i] \notin Range(links_succ)
             /\ Processed(i) => to_symlink[i] \in Range(links_fail)

\* C3 witness: a call has returned, one operation met a regular file and
\* failed, another was linked
C3_Witness ==
    /\ pc = "returned"
    /\ \E i \in 1..Len(to_symlink) :
          /\ fs[Tailof(to_symlink[i])] = RegularFile
          /\ ArtifactExists(to_symlink[i][2], broken)
          /\ to_symlink[i] \in Range(links_fail)
    /\ links_succ # <<>>

\* the symbolic links at the link locations: <<from_path, target>>
Links(files) == {<<c, files[c].data>> : c \in {d \in ConfParts : files[d].kind = "link"}}

\* C4: when a second or later call with the same inputs has ended, the
\* symbolic links are those left by the call before it, and every operation
\* it recorded as failed was recorded as failed by the call before it.
C4_Idempotent ==
    (Ended /\ prev.valid) =>
        /\ Links(fs) = Links(prev.fs)
        /\ Range(links_fail) \subseteq Range(prev.fail)

\* C4 witness: the second call has returned, having linked again what the
\* first call linked and failed again where the first call failed
C4_Witness ==
    /\ pc = "returned"
    /\ prev.valid
    /\ links_succ # <<>>
    /\ links_fail # <<>>
    /\ Links(fs) # {}

\* C5: when a call has ended, every planned operation is in exactly one of
\* links_succ and links_fail.
C5_AllProcessed ==
    Ended =>
        \A i \in 1..Len(to_symlink) :
            (to_symlink[i] \in Range(links_succ)) # (to_symlink[i] \in Range(links_fail))

\* C6: an update_apps run over a registry with a misconfigured application
\* raises nothing and calls update_app_config for the other applications.
C6_OthersUnaffected ==
    (pc \in {"apps_returned", "apps_raised"}
        /\ (\E i \in 1..Len(app_registry) : Misconfigured(app_registry[i][2]))
        /\ (\E k \in 1..Len(app_registry) : ~Misconfigured(app_registry[k][2])))
    => exc = "none" /\ runs > 0

C8_ScriptFailureContained ==
    \A i \in 1..Len(executed) :
        executed[i][2] \in failing
        => /\ pc # "raised"
           /\ to_symlink[executed[i][1]] \in Range(links_succ)
           /\ fs[Tailof(to_symlink[executed[i][1]])] = LinkTo(to_symlink[executed[i][1]][2])

RECURSIVE MapPlan(_, _)
\* the plan C10 describes: <<config_map[name], path>> for the resolved names
\* that are keys of config_map, in the order of the resolved map
MapPlan(fm, map) ==
    IF fm = <<>> THEN <<>>
    ELSE IF Head(fm)[1] \in Keys(map)
    THEN << <<Get(map, Head(fm)[1]), Head(fm)[2]>> >> \o MapPlan(Tail(fm), map)
    ELSE MapPlan(Tail(fm), map)

\* C10: with the config_map form, once planning is over the plan is MapPlan
\* and no error was raised.
C10_MapPlan ==
    LET s == EffectiveSettings(app_settings, app_registry, AppName) IN
    (pc \in {"loop", "scripts", "returned", "raised"}
        /\ "config_map" \in s.keys /\ "config_dir" \notin s.keys)
    => /\ to_symlink = MapPlan(file_map, s.config_map)
       /\ exc = "none"

\* C12: an operation recorded as failed leaves what is at its from_path as it
\* was when the call started, a symlink included: the three tests come before
\* the unlink.
C12_FailedOpLeavesEntry ==
    \A i \in 1..Len(links_fail) :
        fs[Tailof(links_fail[i])] = fs_start[Tailof(links_fail[i])]

\* C12 witness: an operation failed for its missing artifact while a symlink
\* was at its from_path, and the symlink is still there
C12_Witness ==
    \E i \in 1..Len(links_fail) :
        /\ ~ArtifactExists(links_fail[i][2], broken)
        /\ fs_start[Tailof(links_fail[i])] = LinkTo(Elsewhere)
        /\ fs[Tailof(links_fail[i])] = LinkTo(Elsewhere)

====
